---- MODULE Spec2Model ----
(***************************************************************************)
(* A model of the train-delays enrichment pipeline: the route resolver     *)
(* (utils/fetching/routes.py), the geocoder and the weather fetcher        *)
(* (utils/fetching/geocoding.py, weather.py) and the composition run       *)
(* (utils/preprocessing/composition.py).                                   *)
(*                                                                         *)
(* Values.  A table cell is a record with a field "kind":                  *)
(*   [kind |-> "None"]                Python None                         *)
(*   [kind |-> "NaN"]                 float('nan')                        *)
(*   [kind |-> "float", n, d]         the number n/d, in lowest terms      *)
(*   [kind |-> "str", s]              a string                            *)
(* A raised Python exception is a result record with raised = TRUE.        *)
(***************************************************************************)
EXTENDS Integers, Sequences, FiniteSets, TLC

VARIABLES
  data_dict,    \* GoogleMapsRouteFetcher.__data_dict: column name -> list
  calls,        \* history: every get_route call made, with its outcome
  routes_df,    \* the table last returned by get_routes_data
  pc,           \* where run_composing stands
  raw,          \* the merged raw records (get_main_data)
  autosave,     \* DataComposer.autosave
  stations_file,           \* data/preprocessed/stations.parquet on disk
  station_names,           \* DataComposer.station_names
  stations_df,             \* DataComposer.stations_df
  weather_data_input_df,   \* DataComposer.weather_data_input_df
  weather_df,              \* DataComposer.weather_df
  routes_data_input_df,    \* DataComposer.routes_data_input_df
  saved,        \* what the Output Writer was handed, in order
  phase_log,    \* history: the phases run_composing entered, with outcome
  geocoded,     \* history: the addresses sent to the geocoding service
  weather_fetched, \* history: batch_fetch_weather's results_dfs
  legs_submitted   \* history: the legs __compose_routes_data called get_route for

resolver_vars == <<data_dict, calls, routes_df>>
composer_vars ==
  <<pc, raw, autosave, stations_file, station_names, stations_df,
    weather_data_input_df, weather_df, routes_data_input_df, saved,
    phase_log, geocoded, weather_fetched, legs_submitted>>
vars == <<resolver_vars, composer_vars>>

----------------------------------------------------------------------------
(* Cells and arithmetic on them *)

None == [kind |-> "None"]
NaN == [kind |-> "NaN"]
Str(s) == [kind |-> "str", s |-> s]
List(items) == [kind |-> "list", items |-> items]
DataFrame(rows) == [kind |-> "DataFrame", rows |-> rows]

Abs(x) == IF x < 0 THEN -x ELSE x

RECURSIVE GCD(_, _)
GCD(a, b) == IF b = 0 THEN a ELSE GCD(b, a % b)

\* the float n/d, d # 0
Frac(n, d) ==
  LET g == GCD(Abs(n), Abs(d))
      s == IF d < 0 THEN -1 ELSE 1
  IN [kind |-> "float", n |-> (s * n) \div g, d |-> (s * d) \div g]

Float(n) == Frac(n, 1)

IsNone(c) == c.kind = "None"
IsNaN(c) == c.kind = "NaN"
IsNum(c) == c.kind = "float"

\* IEEE equality of two float cells: NaN equals nothing
FloatEq(a, b) == IsNum(a) /\ IsNum(b) /\ a = b

----------------------------------------------------------------------------
(* numpy.linspace(start, stop, num, dtype=float), num >= 2:                *)
(*   step = (stop - start) / (num - 1); y[i] = i * step + start;           *)
(*   the last element is then overwritten with stop.                       *)
(* A NaN operand makes step NaN, hence every element but the last NaN.     *)

linspace(start, stop, num) ==
  LET div == num - 1
      y(i) == IF IsNum(start) /\ IsNum(stop)
              THEN Frac(start.n * stop.d * div
                          + i * (stop.n * start.d - start.n * stop.d),
                        start.d * stop.d * div)
              ELSE NaN
  IN [k \in 1..num |-> IF k = num THEN stop ELSE y(k - 1)]

NUM_POINTS == 25

generate_intermediate_points_off_by_one(point_start, point_dest, num_points) ==
  LET lats == linspace(point_start[1], point_dest[1], num_points + 1)
      lons == linspace(point_start[2], point_dest[2], num_points + 1)
  IN [k \in 1..Len(lats) |-> <<lats[k], lons[k]>>]

generate_intermediate_points(point_start, point_dest, num_points) ==
  LET lats == linspace(point_start[1], point_dest[1], num_points + 2)
      lons == linspace(point_start[2], point_dest[2], num_points + 2)
  IN [k \in 1..Len(lats) |-> <<lats[k], lons[k]>>]

----------------------------------------------------------------------------
(* The libraries the resolver calls *)

Raised == [raised |-> TRUE]
Returned(v) == [raised |-> FALSE, value |-> v]

\* haversine.haversine(p1, p2, unit=METERS): a TypeError on None; NaN
\* propagates; the distance itself is left uninterpreted (a term naming
\* its two arguments), except that a point is at distance 0 from itself.
haversine(p1, p2) ==
  LET cs == {p1[1], p1[2], p2[1], p2[2]}
  IN IF \E c \in cs : IsNone(c) THEN Raised
     ELSE IF \E c \in cs : IsNaN(c) THEN Returned(NaN)
     ELSE IF p1 = p2 THEN Returned(Float(0))
     ELSE Returned([kind |-> "haversine_m", a |-> p1, b |-> p2])

\* polyline.decode on the encoded strings the model uses (the worked
\* examples of the encoded polyline format); None is a TypeError.
polyline_decoder(encoded_polyline_str) ==
  IF IsNone(encoded_polyline_str) THEN Raised
  ELSE IF encoded_polyline_str.s = "_p~iF~ps|U"
       THEN Returned(<< <<Frac(77, 2), Frac(-601, 5)>> >>)
  ELSE IF encoded_polyline_str.s = "_p~iF~ps|U_ulLnnqC"
       THEN Returned(<< <<Frac(77, 2), Frac(-601, 5)>>,
                        <<Frac(407, 10), Frac(-2419, 20)>> >>)
  ELSE Returned(<<>>)

Digits == <<"0", "1", "2", "3", "4", "5", "6", "7", "8", "9">>
DigitValue(ch) == CHOOSE v \in 0..9 : Digits[v + 1] = ch
IsDigit(ch) == \E v \in 0..9 : Digits[v + 1] = ch

RECURSIVE DecimalValue(_)
DecimalValue(chars) ==
  IF chars = <<>> THEN 0
  ELSE 10 * DecimalValue(SubSeq(chars, 1, Len(chars) - 1))
         + DigitValue(chars[Len(chars)])

\* float(duration.replace('s', '')) on a string given as its characters:
\* every 's' is removed, wherever it stands; what remains must be a number
\* (the model's strings hold digits only), else ValueError. None has no
\* replace: AttributeError.
parse_duration(duration) ==
  IF IsNone(duration) THEN Raised
  ELSE LET rest == SelectSeq(duration.s, LAMBDA ch : ch # "s")
       IN IF rest # <<>> /\ \A i \in 1..Len(rest) : IsDigit(rest[i])
          THEN Returned(Float(DecimalValue(rest)))
          ELSE Raised

\* GoogleMapsRouteFetcher._handle_original_response_data
handle_original_response_data(duration, polyline) ==
  LET d == parse_duration(duration)
      p == polyline_decoder(polyline)
  IN IF d.raised \/ p.raised THEN Raised
     ELSE Returned(<<d.value, p.value>>)

\* GoogleMapsRouteFetcher.__handle_missing_data
handle_missing_data(start_lat, start_lon, dest_lat, dest_lon) ==
  LET point_start == <<start_lat, start_lon>>
      points_dest == <<dest_lat, dest_lon>>
      distance_m == haversine(point_start, points_dest)
  IN IF distance_m.raised THEN Raised
     ELSE Returned(<<distance_m.value,
                     generate_intermediate_points(point_start, points_dest,
                                                  NUM_POINTS)>>)

----------------------------------------------------------------------------
(* The directions service: what one POST can come back with *)

Route(dist, dur, poly) ==
  [kind |-> "Route", distanceMeters |-> dist, duration |-> dur,
   polyline |-> poly]
Polyline(enc) == [kind |-> "RoutePolyline", encodedPolyline |-> enc]

FullRoute ==
  Route(Float(1200), Str(<<"9", "0", "s">>), Polyline(Str("_p~iF~ps|U_ulLnnqC")))
NoDistanceRoute ==
  Route(None, Str(<<"s", "7">>), Polyline(Str("_p~iF~ps|U")))
NoDurationRoute == Route(Float(1200), None, Polyline(Str("_p~iF~ps|U")))
NoPolylineRoute == Route(Float(1200), Str(<<"9", "0", "s">>), None)
NoEncodedRoute == Route(Float(1200), Str(<<"9", "0", "s">>), Polyline(None))
BadDurationRoute ==
  Route(Float(1200), Str(<<"P", "T", "9", "0", "S">>), Polyline(Str("_p~iF~ps|U")))

\* kind "post_raises": requests raised (connection error, timeout);
\* "status": a response whose status_code is not 200; "bad_json": status
\* 200 and a body that response.json() or RouteResponse(**...) rejects;
\* "routes": status 200 and a body RouteResponse accepts (routes may be
\* null or empty: the model declares Optional[list[Route]] = []).
RouteResponses ==
  { [kind |-> "post_raises"], [kind |-> "status"], [kind |-> "bad_json"],
    [kind |-> "routes", routes |-> None],
    [kind |-> "routes", routes |-> List(<<>>)] }
  \cup { [kind |-> "routes", routes |-> List(<<r>>)] :
           r \in {FullRoute, NoDistanceRoute, NoDurationRoute, NoPolylineRoute,
                  NoEncodedRoute, BadDurationRoute} }
  \cup { [kind |-> "routes", routes |-> List(<<NoDistanceRoute, FullRoute>>)] }

\* GoogleMapsRouteFetcher.__fetch_route.  requests encodes the json= body
\* with allow_nan=False, so a NaN coordinate makes post raise before any
\* request is sent; post also raises on a network-layer error.  Both are
\* outside the try block.  Returns the Optional[Route].
fetch_route(start_lat, start_lon, dest_lat, dest_lon, response) ==
  IF \E c \in {start_lat, start_lon, dest_lat, dest_lon} : IsNaN(c) THEN Raised
  ELSE IF response.kind = "post_raises" THEN Raised
  ELSE IF response.kind = "status" THEN Returned(None)
  ELSE IF response.kind = "bad_json" THEN Returned(None)
  ELSE IF IsNone(response.routes) \/ response.routes.items = <<>>
       THEN Returned(None)
  ELSE Returned(response.routes.items[1])

----------------------------------------------------------------------------
(* GoogleMapsRouteFetcher: the accumulator and its two public methods *)

DATA_DICT_KEYS ==
  <<"start_lat", "start_lon", "dest_lat", "dest_lon", "distance_m",
    "duration_s", "encoded_polyline_str", "decoded_polyline">>

KeySet == {DATA_DICT_KEYS[i] : i \in 1..Len(DATA_DICT_KEYS)}
KeyIndex(key) == CHOOSE i \in 1..Len(DATA_DICT_KEYS) : DATA_DICT_KEYS[i] = key

\* __init__: {key: [] for key in DATA_DICT_KEYS}
EmptyDataDict == [key \in KeySet |-> <<>>]

\* for key, value in zip(DATA_DICT_KEYS, values): data_dict[key].append(value)
append_values_at_front(dd, values) ==
  [key \in KeySet |->
     IF KeyIndex(key) <= Len(values)
     THEN <<values[KeyIndex(key)]>> \o dd[key] ELSE dd[key]]

append_values_replacing_last(dd, values) ==
  [key \in KeySet |->
     IF KeyIndex(key) <= Len(values)
     THEN (IF dd[key] = <<>> THEN <<>>
           ELSE SubSeq(dd[key], 1, Len(dd[key]) - 1))
            \o <<values[KeyIndex(key)]>>
     ELSE dd[key]]

append_values(dd, values) ==
  [key \in KeySet |->
     IF KeyIndex(key) <= Len(values)
     THEN Append(dd[key], values[KeyIndex(key)]) ELSE dd[key]]

\* get_route: the new accumulator, or the exception that left it as it was
get_route_appending_endpoints_first(dd, start_lat, start_lon, dest_lat, dest_lon, response) ==
  LET early == append_values(dd, <<start_lat, start_lon, dest_lat, dest_lon>>)
      f == fetch_route(start_lat, start_lon, dest_lat, dest_lon, response)
      fail == [raised |-> TRUE, data_dict |-> early]
      done(values) == [raised |-> FALSE, data_dict |-> append_values(dd, values)]
  IN IF f.raised THEN fail
     ELSE IF ~IsNone(f.value)
     THEN LET route == f.value
          IN IF IsNone(route.polyline) THEN fail
             ELSE LET h == handle_original_response_data(
                             route.duration, route.polyline.encodedPolyline)
                  IN IF h.raised THEN fail
                     ELSE done(<<start_lat, start_lon, dest_lat, dest_lon,
                                 route.distanceMeters, h.value[1],
                                 route.polyline.encodedPolyline, h.value[2]>>)
     ELSE LET m == handle_missing_data(start_lat, start_lon, dest_lat, dest_lon)
          IN IF m.raised THEN fail
             ELSE done(<<start_lat, start_lon, dest_lat, dest_lon,
                         m.value[1], None, None, m.value[2]>>)

get_route(dd, start_lat, start_lon, dest_lat, dest_lon, response) ==
  LET f == fetch_route(start_lat, start_lon, dest_lat, dest_lon, response)
      fail == [raised |-> TRUE, data_dict |-> dd]
      done(values) == [raised |-> FALSE, data_dict |-> append_values(dd, values)]
  IN IF f.raised THEN fail
     ELSE IF ~IsNone(f.value)
     THEN LET route == f.value
          IN IF IsNone(route.polyline) THEN fail
             ELSE LET h == handle_original_response_data(
                             route.duration, route.polyline.encodedPolyline)
                  IN IF h.raised THEN fail
                     ELSE done(<<start_lat, start_lon, dest_lat, dest_lon,
                                 route.distanceMeters, h.value[1],
                                 route.polyline.encodedPolyline, h.value[2]>>)
     ELSE LET m == handle_missing_data(start_lat, start_lon, dest_lat, dest_lon)
          IN IF m.raised THEN fail
             ELSE done(<<start_lat, start_lon, dest_lat, dest_lon,
                         m.value[1], None, None, m.value[2]>>)

\* get_routes_data: pd.DataFrame(dict of lists); columns of unequal length
\* are a ValueError
get_routes_data(dd) ==
  LET n == Len(dd[DATA_DICT_KEYS[1]])
  IN IF \E key \in KeySet : Len(dd[key]) # n THEN Raised
     ELSE Returned(DataFrame([k \in 1..n |-> [key \in KeySet |-> dd[key][k]]]))

----------------------------------------------------------------------------
(* The resolver on its own: any caller, any legs, any responses *)

MaxCalls == 2

A == <<Float(52), Float(21)>>
B == <<Float(50), Float(19)>>
NonePoint == <<None, None>>
NaNPoint == <<NaN, NaN>>

\* a leg is <<start_lat, start_lon, dest_lat, dest_lon>>
Leg(p, q) == <<p[1], p[2], q[1], q[2]>>
Legs == {Leg(A, B), Leg(B, A), Leg(A, NonePoint), Leg(NaNPoint, B)}

HasNaN(leg) == \E i \in 1..4 : IsNaN(leg[i])
HasNull(leg) == \E i \in 1..4 : IsNaN(leg[i]) \/ IsNone(leg[i])

\* what can come back for a leg: nothing is sent for a NaN coordinate
NotSent == [kind |-> "not_sent"]

ResponsesFor(leg) == IF HasNaN(leg) THEN {NotSent} ELSE RouteResponses

\* the service's answer as the caller sees it
Outcome(response) ==
  IF response.kind # "routes" THEN response.kind
  ELSE IF IsNone(response.routes) \/ response.routes.items = <<>> THEN "empty"
  ELSE LET r == response.routes.items[1]
       IN IF IsNone(r.duration) THEN "route_without_duration"
          ELSE IF IsNone(r.polyline) \/ IsNone(r.polyline.encodedPolyline)
               THEN "route_without_polyline"
          ELSE IF parse_duration(r.duration).raised THEN "route_bad_duration"
          ELSE "route"

CallRecord(leg, response, raised) ==
  [leg |-> leg, outcome |-> Outcome(response), raised |-> raised]

NotDrained == None

----------------------------------------------------------------------------
(* Sequences as pandas uses them *)

Range(seq) == {seq[i] : i \in 1..Len(seq)}

\* list(dict.fromkeys(input_array)), Series.unique(): first occurrences, in
\* order
RECURSIVE unique_list_preserve_order(_)
unique_list_preserve_order(input_array) ==
  IF input_array = <<>> THEN <<>>
  ELSE LET init == unique_list_preserve_order(
                     SubSeq(input_array, 1, Len(input_array) - 1))
           last == input_array[Len(input_array)]
       IN IF last \in Range(init) THEN init ELSE Append(init, last)

\* DataFrame.drop_duplicates(subset=...): a row is dropped when an earlier
\* row agrees with it on the subset; subset[i] is the projection of rows[i]
drop_duplicates(rows, subset) ==
  LET keep(i) == \A j \in 1..(i - 1) : subset[j] # subset[i]
      F[i \in 0..Len(rows)] ==
        IF i = 0 THEN <<>>
        ELSE IF keep(i) THEN Append(F[i - 1], rows[i]) ELSE F[i - 1]
  IN F[Len(rows)]

\* seq[:n]
Head_n(seq, n) == SubSeq(seq, 1, IF Len(seq) < n THEN Len(seq) ELSE n)

RECURSIVE Flatten(_)
Flatten(seqs) ==
  IF seqs = <<>> THEN <<>> ELSE Head(seqs) \o Flatten(Tail(seqs))

\* the elements of a finite set in increasing order; less is the set of
\* the pairs <<x, y>> with x before y
Sorted(S, less) ==
  LET F[T \in SUBSET S] ==
        IF T = {} THEN <<>>
        ELSE LET m == CHOOSE x \in T : \A y \in T \ {x} : <<x, y>> \in less
             IN <<m>> \o F[T \ {m}]
  IN F[S]

----------------------------------------------------------------------------
(* The raw records.  The loader gives the i-th DataFrame of the pickle the *)
(* id i (TrainDelaysRawDataFileLoader.__apply_id) and the handler          *)
(* concatenates them (__combine_dataframes).  A date is <<day, month,      *)
(* year>>, as the raw '%d.%m.%Y' text orders it.                           *)

MaxJourneys == 2

D1 == <<21, 3, 2024>>
D2 == <<22, 3, 2024>>

\* A station name is a base text followed by some copies of
\* GoogleMapsGeocoder.ADDITIONAL_PATTERN (', railway station').
Name(base) == [base |-> base, patterns |-> 0]
NameWithPattern(base) == [base |-> base, patterns |-> 1]

Stop(relacja, stacja, data) ==
  [relacja |-> relacja, stacja |-> stacja, data |-> data]

X == Name("X")
Y == Name("Y")
Z == Name("Z")

\* one DataFrame of the pickle: the stops of one train
Journeys ==
  { << Stop("R1", X, D1), Stop("R1", Y, D1), Stop("R1", Z, D1) >>,
    << Stop("R1", X, D1), Stop("R1", X, D1), Stop("R1", Y, D1),
       Stop("R1", Z, D1) >>,
    << Stop("R1", Z, D1), Stop("R1", Y, D1), Stop("R1", X, D2) >>,
    << Stop("R2", Y, D1), Stop("R2", Z, D2) >>,
    << Stop("R2", NameWithPattern("X"), D2), Stop("R2", X, D2) >> }

\* __apply_id: df.insert(0, 'id', i)
apply_id(df, i) ==
  [k \in 1..Len(df) |->
     [id |-> i, relacja |-> df[k].relacja, stacja |-> df[k].stacja,
      data |-> df[k].data]]

\* __combine_dataframes: pd.concat(self.get_data(), ignore_index=True)
combine_dataframes(dfs) ==
  Flatten([i \in 1..Len(dfs) |-> apply_id(dfs[i], i - 1)])

RawInputs ==
  { combine_dataframes(dfs) :
      dfs \in UNION { [1..n -> Journeys] : n \in 1..MaxJourneys } }

----------------------------------------------------------------------------
(* GoogleMapsGeocoder *)

\* location.replace(ADDITIONAL_PATTERN, ''): every copy is removed
strip_pattern(location) == [location EXCEPT !.patterns = 0]

\* f'{location}{ADDITIONAL_PATTERN}'
with_pattern(location) == [location EXCEPT !.patterns = @ + 1]

\* the place the geocoding service knows under an address
Location(address) ==
  IF address.base = "X" THEN [lat |-> Float(52), lng |-> Float(21)]
  ELSE IF address.base = "Y" THEN [lat |-> Float(50), lng |-> Float(19)]
  ELSE [lat |-> Float(54), lng |-> Float(18)]

\* "get_raises": requests raised; "status": status_code is not 200;
\* "bad_json": a body response.json() or GMGeolocator(**...) rejects;
\* "zero_results": status is not "OK", or results is empty; "ok": results
GeocodeResponses == {"get_raises", "status", "bad_json", "zero_results", "ok"}

\* __fetch_geocode: the Optional[Result]; self.get is outside the try block
fetch_geocode(location, response) ==
  IF response = "get_raises" THEN Raised
  ELSE IF response = "status" THEN Returned(None)
  ELSE IF response = "bad_json" THEN Returned(None)
  ELSE IF response = "zero_results" THEN Returned(None)
  ELSE Returned([kind |-> "Result", location |-> Location(location)])

geocode_row(location, result) ==
  [stacja |-> strip_pattern(location),
   lat |-> IF IsNone(result) THEN None ELSE result.location.lat,
   lon |-> IF IsNone(result) THEN None ELSE result.location.lng]

\* batch_geocode: one dict per location, in order; responses[i] answers the
\* i-th request
batch_geocode(locations, responses) ==
  LET fetched == [i \in 1..Len(locations) |->
                    fetch_geocode(with_pattern(locations[i]), responses[i])]
  IN IF \E i \in 1..Len(locations) : fetched[i].raised THEN Raised
     ELSE Returned([i \in 1..Len(locations) |->
                      geocode_row(locations[i], fetched[i].value)])

\* pd.DataFrame(list of dicts): a lat/lon column that holds a number is a
\* float column, its None become NaN; a column of None only stays object
frame_from_dicts(rows) ==
  LET float_col(col(_)) == \E i \in 1..Len(rows) : IsNum(col(rows[i]))
      cell(c, is_float) == IF is_float /\ IsNone(c) THEN NaN ELSE c
      lat_float == float_col(LAMBDA r : r.lat)
      lon_float == float_col(LAMBDA r : r.lon)
  IN DataFrame([i \in 1..Len(rows) |->
                  [stacja |-> rows[i].stacja,
                   lat |-> cell(rows[i].lat, lat_float),
                   lon |-> cell(rows[i].lon, lon_float)]])

----------------------------------------------------------------------------
(* WeatherDataFetcher *)

\* "get_raises": requests raised; "status": status_code is not 200;
\* "bad_json": a body response.json() or WeatherData(**...) rejects;
\* "no_days": a WeatherData whose days list is empty; "ok": one day with
\* the hours the service reports for the date asked
WeatherResponses == {"get_raises", "status", "bad_json", "no_days", "ok"}

Hours == <<0, 1>>

\* __handle_response_data: one row per hourly record of days[0], with the
\* lat and lon asked for; days[0] of an empty list is an IndexError
handle_response_data(response, latitude, longitude, fetch_date) ==
  IF response = "no_days" THEN Raised
  ELSE Returned(DataFrame([h \in 1..Len(Hours) |->
         [hourly |-> <<fetch_date, Hours[h]>>,
          lat |-> latitude, lon |-> longitude]]))

\* __fetch_weather: None on a status other than 200, an empty table on an
\* exception inside the try block, else the table; requests.get is outside
\* the try block
fetch_weather(latitude, longitude, fetch_date, response) ==
  IF response = "get_raises" THEN Raised
  ELSE IF response = "status" THEN Returned(None)
  ELSE IF response = "bad_json" THEN Returned(DataFrame(<<>>))
  ELSE LET t == handle_response_data(response, latitude, longitude, fetch_date)
       IN IF t.raised THEN Returned(DataFrame(<<>>)) ELSE t

\* Timestamp.strftime('%Y-%m-%d') of a <<year, month, day>> timestamp
strftime(ts) == [year |-> ts[1], month |-> ts[2], day |-> ts[3]]

\* pd.concat(objs, ignore_index=True): None entries are dropped; nothing to
\* concatenate is a ValueError
concat(objs) ==
  LET tables == SelectSeq(objs, LAMBDA o : ~IsNone(o))
  IN IF tables = <<>> THEN Raised
     ELSE Returned(DataFrame(Flatten([i \in 1..Len(tables) |-> tables[i].rows])))

\* results_dfs of batch_fetch_weather, up to and including a fetch that
\* raises; responses[i] answers the i-th request
results_dfs(rows, responses) ==
  LET fetched == [i \in 1..Len(rows) |->
                    fetch_weather(rows[i].lat, rows[i].lon,
                                  strftime(rows[i].data), responses[i])]
      stop == IF \E i \in 1..Len(rows) : fetched[i].raised
              THEN CHOOSE i \in 1..Len(rows) :
                     /\ fetched[i].raised
                     /\ \A j \in 1..(i - 1) : ~fetched[j].raised
              ELSE Len(rows)
  IN [i \in 1..stop |->
        [stacja |-> rows[i].stacja, data |-> rows[i].data,
         fetched |-> fetched[i]]]

\* batch_fetch_weather
batch_fetch_weather(rows, responses) ==
  LET results == results_dfs(rows, responses)
  IN IF \E i \in 1..Len(results) : results[i].fetched.raised THEN Raised
     ELSE concat([i \in 1..Len(results) |-> results[i].fetched.value])

----------------------------------------------------------------------------
(* DataComposer *)

DEBUG == TRUE

\* the attributes an instance finds on TrainDelaysRawDataHandler and
\* TrainDelaysRawDataFileLoader
HandlerAttributes == {"raw_data_dir", "preprocessed_data_dir"}

\* if self.autosave: self.save_method_selector.save(save_format, table,
\*     self.PREPROCESSED_DATA_DIR, filename)
\* The arguments are evaluated first: an attribute the instance lacks is an
\* AttributeError.  The result is what the writer has been handed.
autosave_table(flag, handed, data_type, table) ==
  IF ~flag THEN Returned(handed)
  ELSE IF "PREPROCESSED_DATA_DIR" \notin HandlerAttributes THEN Raised
  ELSE Returned(Append(handed, [data_type |-> data_type, table |-> table]))

\* df.merge(stations, how='left', on='stacja'): every left row, with each
\* of its matches or with NaN coordinates when it has none
merge_stations(left, stations) ==
  LET matches(row) == SelectSeq(stations.rows, LAMBDA st : st.stacja = row.stacja)
      joined(row) ==
        IF matches(row) = <<>> THEN <<row @@ [lat |-> NaN, lon |-> NaN]>>
        ELSE [k \in 1..Len(matches(row)) |->
                row @@ [lat |-> matches(row)[k].lat, lon |-> matches(row)[k].lon]]
  IN Flatten([i \in 1..Len(left) |-> joined(left[i])])

\* pd.to_datetime(text, format='%d.%m.%Y')
to_datetime(text) == <<text[3], text[2], text[1]>>

\* __prepare_input_for_weather_data_fetching; merging with a stations_df
\* that is still None is a TypeError
prepare_input_for_weather_data_fetching(main_data, stations) ==
  LET columns == [i \in 1..Len(main_data) |->
                    [stacja |-> main_data[i].stacja, data |-> main_data[i].data]]
      pairs == drop_duplicates(columns, columns)
      merged == merge_stations(pairs, stations)
  IN IF IsNone(stations) THEN Raised
     ELSE Returned(DataFrame([i \in 1..Len(merged) |->
                                [merged[i] EXCEPT !.data = to_datetime(@)]]))

\* run_composing: the phases in order; an exception ends the run
run_composing_swallowing(phase, raised) ==
  IF phase = "stations" THEN "StationsDone"
  ELSE IF phase = "weather" THEN "WeatherDone"
  ELSE "RoutesDone"

run_composing(phase, raised) ==
  IF raised THEN "Failed"
  ELSE IF phase = "stations" THEN "StationsDone"
  ELSE IF phase = "weather" THEN "WeatherDone"
  ELSE "RoutesDone"

LogEntry(phase, raised) == [phase |-> phase, raised |-> raised]

----------------------------------------------------------------------------
(* The Leg Sequencer: __prepare_input_for_routes_data_fetching and the     *)
(* loop of __compose_routes_data                                           *)

\* the order of Python strings, on the texts the model uses
RelationsInOrder == <<"R1", "R2">>
BasesInOrder == <<"X", "Y", "Z">>
Rank(seq, x) == CHOOSE i \in 1..Len(seq) : seq[i] = x

\* repr of a name: 'X' sorts before 'X, railway station' (the closing quote
\* before the comma), and that before 'Y'
NameLess(a, b) ==
  \/ Rank(BasesInOrder, a.base) < Rank(BasesInOrder, b.base)
  \/ a.base = b.base /\ a.patterns < b.patterns

\* str(list): at the first difference the names decide; a list that
\* continues (', ') sorts before one that ends (']')
ListLess(l1, l2) ==
  LET n == IF Len(l1) < Len(l2) THEN Len(l1) ELSE Len(l2)
      differ == {i \in 1..n : l1[i] # l2[i]}
  IN IF differ # {}
     THEN LET i == CHOOSE i \in differ : \A j \in differ : i <= j
          IN NameLess(l1[i], l2[i])
     ELSE Len(l1) > Len(l2)

\* the key column: relacja + '_' + str(station list), kept as its two parts
Key(relacja, stations) == [relacja |-> relacja, stations |-> stations]

KeyLess(k1, k2) ==
  \/ Rank(RelationsInOrder, k1.relacja) < Rank(RelationsInOrder, k2.relacja)
  \/ k1.relacja = k2.relacja /\ ListLess(k1.stations, k2.stations)

GroupLess(g1, g2) ==
  \/ Rank(RelationsInOrder, g1[1]) < Rank(RelationsInOrder, g2[1])
  \/ g1[1] = g2[1] /\ g1[2] < g2[2]

\* groupby([id, relacja])[relacja].transform('count'): the number of raw
\* records of the record's (id, relacja)
full_route_station_count(main_data, i) ==
  Cardinality({j \in 1..Len(main_data) :
                 /\ main_data[j].id = main_data[i].id
                 /\ main_data[j].relacja = main_data[i].relacja})

\* the rows (key, relacja, stacja) before the merge with the stations
route_station_rows(main_data) ==
  LET counted == [i \in 1..Len(main_data) |->
                    main_data[i] @@
                      [count |-> full_route_station_count(main_data, i)]]
      distinct == drop_duplicates(counted,
                    [i \in 1..Len(counted) |->
                       <<counted[i].id, counted[i].relacja, counted[i].stacja>>])
      group_keys == {<<distinct[i].relacja, distinct[i].count>> :
                       i \in 1..Len(distinct)}
      groups == Sorted(group_keys,
                       {g \in group_keys \X group_keys : GroupLess(g[1], g[2])})
      stations(g) ==
        unique_list_preserve_order(
          LET members == SelectSeq(distinct,
                           LAMBDA r : r.relacja = g[1] /\ r.count = g[2])
          IN [k \in 1..Len(members) |-> members[k].stacja])
      exploded(g) ==
        [k \in 1..Len(stations(g)) |->
           [key |-> Key(g[1], stations(g)), relacja |-> g[1],
            stacja |-> stations(g)[k]]]
      rows == Flatten([i \in 1..Len(groups) |-> exploded(groups[i])])
  IN drop_duplicates(rows, rows)

\* __prepare_input_for_routes_data_fetching: with DEBUG the stations are
\* read from data/preprocessed/stations.parquet, which may not exist
prepare_input_for_routes_data_fetching(main_data, stations, file) ==
  IF DEBUG
  THEN IF IsNone(file) THEN Raised
       ELSE Returned(DataFrame(merge_stations(route_station_rows(main_data), file)))
  ELSE Returned(DataFrame(merge_stations(route_station_rows(main_data), stations)))

\* for _, df in groupby(key): for i in range(1, len(df)): the legs in the
\* order get_route is called for them
legs_in_order(input) ==
  LET key_set == {input.rows[i].key : i \in 1..Len(input.rows)}
      keys == Sorted(key_set,
                     {k \in key_set \X key_set : KeyLess(k[1], k[2])})
      group(key) == SelectSeq(input.rows, LAMBDA r : r.key = key)
      legs(key) ==
        [i \in 1..(Len(group(key)) - 1) |->
           [key |-> key,
            previous_station |-> group(key)[i].stacja,
            current_station |-> group(key)[i + 1].stacja,
            leg |-> <<group(key)[i].lat, group(key)[i].lon,
                      group(key)[i + 1].lat, group(key)[i + 1].lon>>]]
  IN Flatten([k \in 1..Len(keys) |-> legs(keys[k])])

\* the get_route calls of the loop, up to and including one that raises
resolve_legs(dd, history, legs, responses) ==
  LET F[i \in 0..Len(legs)] ==
        IF i = 0 THEN [raised |-> FALSE, data_dict |-> dd, calls |-> history]
        ELSE IF F[i - 1].raised THEN F[i - 1]
        ELSE LET l == legs[i].leg
                 r == get_route(F[i - 1].data_dict, l[1], l[2], l[3], l[4],
                                responses[i])
             IN [raised |-> r.raised, data_dict |-> r.data_dict,
                 calls |-> Append(F[i - 1].calls,
                                  CallRecord(l, responses[i], r.raised))]
  IN F[Len(legs)]

----------------------------------------------------------------------------
(* One run of DataComposer.run_composing *)

StationsFiles ==
  { None,
    DataFrame(<< [stacja |-> X, lat |-> Float(52), lon |-> Float(21)],
                 [stacja |-> Y, lat |-> Float(50), lon |-> Float(19)],
                 [stacja |-> Z, lat |-> Float(54), lon |-> Float(18)] >>),
    DataFrame(<< [stacja |-> X, lat |-> Float(52), lon |-> Float(21)],
                 [stacja |-> Y, lat |-> NaN, lon |-> NaN] >>),
    DataFrame(<< [stacja |-> X, lat |-> None, lon |-> None],
                 [stacja |-> Y, lat |-> None, lon |-> None] >>) }

Init ==
  /\ data_dict = EmptyDataDict
  /\ calls = <<>>
  /\ routes_df = NotDrained
  /\ pc = "Idle"
  /\ raw \in RawInputs
  /\ autosave \in BOOLEAN
  /\ stations_file \in StationsFiles
  /\ station_names = None
  /\ stations_df = None
  /\ weather_data_input_df = None
  /\ weather_df = None
  /\ routes_data_input_df = None
  /\ saved = <<>>
  /\ phase_log = <<>>
  /\ geocoded = <<>>
  /\ weather_fetched = <<>>
  /\ legs_submitted = <<>>

\* the addresses batch_geocode sends, up to and including a request that
\* raises
geocode_requests(locations, responses) ==
  LET raises == {i \in 1..Len(locations) : responses[i] = "get_raises"}
      stop == IF raises = {} THEN Len(locations)
              ELSE CHOOSE i \in raises : \A j \in raises : i <= j
  IN [i \in 1..stop |-> with_pattern(locations[i])]

\* the names __compose_stations_data geocodes
stations_batch(names) == IF DEBUG THEN Head_n(names, 2) ELSE names

\* __compose_stations_data
ComposeStationsData ==
  /\ pc = "Idle"
  /\ LET names == unique_list_preserve_order(
                    [i \in 1..Len(raw) |-> raw[i].stacja])
         batch == stations_batch(names)
     IN /\ station_names' = List(names)
        /\ \E responses \in [1..Len(batch) -> GeocodeResponses] :
             LET g == batch_geocode(batch, responses)
                 df == frame_from_dicts(g.value)
                 w == autosave_table(autosave, saved, "stations", df)
                 raised == g.raised \/ w.raised
             IN /\ geocoded' = geocode_requests(batch, responses)
                /\ stations_df' = IF g.raised THEN stations_df ELSE df
                /\ saved' = IF raised THEN saved ELSE w.value
                /\ pc' = run_composing("stations", raised)
                /\ phase_log' = Append(phase_log, LogEntry("stations", raised))
  /\ UNCHANGED <<resolver_vars, raw, autosave, stations_file,
                 weather_data_input_df, weather_df, routes_data_input_df,
                 weather_fetched, legs_submitted>>

\* the rows __compose_weather_data hands to batch_fetch_weather: with DEBUG
\* the first two; without, the .iloc indexer itself, which has no iterrows
\* (AttributeError)
weather_batch(input) ==
  IF input.raised THEN Raised
  ELSE IF DEBUG THEN Returned(Head_n(input.value.rows, 2))
  ELSE Raised

\* the weather service has no hours for a place that is no place
WeatherResponsesFor(row) ==
  IF IsNum(row.lat) /\ IsNum(row.lon) THEN WeatherResponses
  ELSE {"get_raises", "status", "bad_json"}

\* __compose_weather_data
ComposeWeatherData ==
  /\ pc = "StationsDone"
  /\ \E input \in {prepare_input_for_weather_data_fetching(raw, stations_df)} :
     \E batch \in {weather_batch(input)} :
     \E rows \in {IF batch.raised THEN <<>> ELSE batch.value} :
        /\ weather_data_input_df' =
             IF input.raised THEN weather_data_input_df ELSE input.value
        /\ \E responses \in [1..Len(rows) -> WeatherResponses] :
             /\ \A i \in 1..Len(rows) : responses[i] \in WeatherResponsesFor(rows[i])
             /\ LET f == IF batch.raised THEN Raised
                         ELSE batch_fetch_weather(rows, responses)
                    w == autosave_table(autosave, saved, "weather", f.value)
                    raised == f.raised \/ w.raised
                IN /\ weather_fetched' = results_dfs(rows, responses)
                   /\ weather_df' = IF f.raised THEN weather_df ELSE f.value
                   /\ saved' = IF raised THEN saved ELSE w.value
                   /\ pc' = run_composing("weather", raised)
                   /\ phase_log' = Append(phase_log, LogEntry("weather", raised))
  /\ UNCHANGED <<resolver_vars, raw, autosave, stations_file, station_names,
                 stations_df, routes_data_input_df, geocoded, legs_submitted>>

\* routes_data_input_df as the loop of __compose_routes_data sees it
routes_batch(input) ==
  IF DEBUG THEN DataFrame(Head_n(input.rows, 2)) ELSE input

\* __compose_routes_data: the table is built and printed, not saved
ComposeRoutesData ==
  /\ pc = "WeatherDone"
  /\ \E p \in {prepare_input_for_routes_data_fetching(raw, stations_df,
                                                      stations_file)} :
     \E input \in {IF p.raised THEN DataFrame(<<>>) ELSE routes_batch(p.value)} :
     \E legs \in {legs_in_order(input)} :
        /\ routes_data_input_df' = IF p.raised THEN routes_data_input_df ELSE input
        /\ \E responses \in [1..Len(legs) -> RouteResponses \cup {NotSent}] :
             /\ \A i \in 1..Len(legs) : responses[i] \in ResponsesFor(legs[i].leg)
             /\ LET r == resolve_legs(data_dict, calls, legs, responses)
                    t == get_routes_data(r.data_dict)
                    raised == p.raised \/ r.raised \/ t.raised
                IN /\ data_dict' = r.data_dict
                   /\ calls' = r.calls
                   /\ legs_submitted' =
                        [i \in 1..(Len(r.calls) - Len(calls)) |->
                           [key |-> legs[i].key,
                            previous_station |-> legs[i].previous_station,
                            current_station |-> legs[i].current_station]]
                   /\ routes_df' = IF raised THEN routes_df ELSE t.value
                   /\ pc' = run_composing("routes", raised)
                   /\ phase_log' = Append(phase_log, LogEntry("routes", raised))
  /\ UNCHANGED <<raw, autosave, stations_file, station_names, stations_df,
                 weather_data_input_df, weather_df, saved, geocoded,
                 weather_fetched>>

Next ==
  \/ ComposeStationsData
  \/ ComposeWeatherData
  \/ ComposeRoutesData

Spec == Init /\ [][Next]_vars

----------------------------------------------------------------------------
(* The resolver on its own: any caller, any legs, any responses *)

InitResolver ==
  /\ data_dict = EmptyDataDict
  /\ calls = <<>>
  /\ routes_df = NotDrained
  /\ pc = "Idle"
  /\ raw = <<>>
  /\ autosave = FALSE
  /\ stations_file = None
  /\ station_names = None
  /\ stations_df = None
  /\ weather_data_input_df = None
  /\ weather_df = None
  /\ routes_data_input_df = None
  /\ saved = <<>>
  /\ phase_log = <<>>
  /\ geocoded = <<>>
  /\ weather_fetched = <<>>
  /\ legs_submitted = <<>>

GetRoute(leg, response) ==
  /\ Len(calls) < MaxCalls
  /\ LET r == get_route(data_dict, leg[1], leg[2], leg[3], leg[4], response)
     IN /\ data_dict' = r.data_dict
        /\ calls' = Append(calls, CallRecord(leg, response, r.raised))
  /\ UNCHANGED <<routes_df, composer_vars>>

GetRoutesData ==
  /\ LET t == get_routes_data(data_dict)
     IN /\ ~t.raised
        /\ routes_df' = t.value
  /\ UNCHANGED <<data_dict, calls, composer_vars>>

NextResolver ==
  \/ \E leg \in Legs : \E response \in ResponsesFor(leg) : GetRoute(leg, response)
  \/ GetRoutesData

SpecResolver == InitResolver /\ [][NextResolver]_vars

----------------------------------------------------------------------------
(* Properties of the resolver, checked under SpecResolver *)

\* the get_route calls that returned, in call order
Completed == SelectSeq(calls, LAMBDA c : ~c.raised)

\* the rows get_routes_data would return now
DrainedRows == get_routes_data(data_dict).value.rows

RowLeg(row) == <<row.start_lat, row.start_lon, row.dest_lat, row.dest_lon>>

IsEstimated(row) == IsNone(row.duration_s) /\ IsNone(row.encoded_polyline_str)

\* the directions request came back with no route at all
NoRouteOutcomes == {"status", "bad_json", "empty"}

IsPrefix(s, t) == Len(s) <= Len(t) /\ \A i \in 1..Len(s) : s[i] = t[i]

\* C1: whatever calls were made and however each ended, get_routes_data
\* returns one row per get_route call that returned, in call order: row k
\* carries the endpoints of the k-th such call and is measured exactly when
\* that call got a route; a table drained earlier holds the first rows.
C1_DrainInCallOrder ==
  /\ ~get_routes_data(data_dict).raised
  /\ Len(DrainedRows) = Len(Completed)
  /\ \A k \in 1..Len(Completed) :
       /\ RowLeg(DrainedRows[k]) = Completed[k].leg
       /\ IsEstimated(DrainedRows[k]) <=> Completed[k].outcome # "route"
  /\ routes_df # NotDrained => IsPrefix(routes_df.rows, DrainedRows)

\* two calls for different legs returned, one measured and one estimated,
\* and the table was drained after both
C1_Witness ==
  /\ Len(Completed) = 2
  /\ Completed[1].leg # Completed[2].leg
  /\ Completed[1].outcome = "route"
  /\ Completed[2].outcome = "status"
  /\ routes_df # NotDrained
  /\ Len(routes_df.rows) = 2

\* the failures of the directions request C2 names
FailureOutcomes ==
  {"post_raises", "status", "bad_json", "empty", "route_without_duration",
   "route_without_polyline"}

\* C2 (as claimed, for legs that have coordinates): a get_route call whose
\* directions request failed does not raise and appends exactly one
\* estimated row.
C2_FailuresAreNonFatal ==
  \A k \in 1..Len(calls) :
    (calls[k].outcome \in FailureOutcomes /\ ~HasNull(calls[k].leg)) =>
      /\ ~calls[k].raised
      /\ LET n == Len(SelectSeq(SubSeq(calls, 1, k), LAMBDA c : ~c.raised))
         IN n >= 1 /\ IsEstimated(DrainedRows[n])

\* C3: a row appended for a call that got no usable route is estimated: no
\* duration, no encoded polyline, a path of exactly 27 points that starts
\* at the origin and ends at the destination, exactly; and a row is
\* estimated only when the request came back with no route.
C3_EstimatedRows ==
  \A k \in 1..Len(Completed) :
    LET row == DrainedRows[k]
        path == row.decoded_polyline
    IN /\ Completed[k].outcome # "route" =>
            /\ IsNone(row.duration_s)
            /\ IsNone(row.encoded_polyline_str)
            /\ Len(path) = 27
            /\ FloatEq(path[1][1], row.start_lat)
            /\ FloatEq(path[1][2], row.start_lon)
            /\ FloatEq(path[27][1], row.dest_lat)
            /\ FloatEq(path[27][2], row.dest_lon)
            /\ RowLeg(row) = Completed[k].leg
       /\ IsEstimated(row) => Completed[k].outcome \in NoRouteOutcomes

\* an estimated row after a bad payload, next to a measured one
C3_Witness ==
  /\ Len(Completed) = 2
  /\ Completed[1].outcome = "bad_json"
  /\ Len(DrainedRows[1].decoded_polyline) = 27
  /\ DrainedRows[1].decoded_polyline[2] # DrainedRows[1].decoded_polyline[1]
  /\ Completed[2].outcome = "route"
  /\ ~IsEstimated(DrainedRows[2])

----------------------------------------------------------------------------
(* Properties of the composition run, checked under Spec *)

PhaseNames == <<"stations", "weather", "routes">>

\* C7: run_composing enters the phases in the order stations, weather,
\* routes, each at most once and none before its predecessor returned; a
\* phase that raises is the last one entered, and the run then stands at
\* Failed; otherwise it stands at the state its last phase leads to.
C7_LinearRun ==
  /\ Len(phase_log) <= Len(PhaseNames)
  /\ \A k \in 1..Len(phase_log) : phase_log[k].phase = PhaseNames[k]
  /\ \A k \in 1..(Len(phase_log) - 1) : ~phase_log[k].raised
  /\ pc = IF phase_log = <<>> THEN "Idle"
          ELSE IF phase_log[Len(phase_log)].raised THEN "Failed"
          ELSE IF Len(phase_log) = 1 THEN "StationsDone"
          ELSE IF Len(phase_log) = 2 THEN "WeatherDone"
          ELSE "RoutesDone"

\* the stations phase returned, the weather phase raised, the run stopped
C7_Witness ==
  /\ Len(phase_log) = 2
  /\ ~phase_log[1].raised
  /\ phase_log[2].raised
  /\ pc = "Failed"

\* the journey groups the Leg Sequencer derives from the raw records
GroupKeys ==
  LET rows == route_station_rows(raw)
  IN {rows[i].key : i \in 1..Len(rows)}

AdjacentPairs(seq) == [i \in 1..(Len(seq) - 1) |-> <<seq[i], seq[i + 1]>>]

SubmittedFor(key) ==
  LET mine == SelectSeq(legs_submitted, LAMBDA l : l.key = key)
  IN [i \in 1..Len(mine) |-> <<mine[i].previous_station, mine[i].current_station>>]

\* C4 (as claimed): once the routes phase is done, every group of N >= 2
\* stations had its N-1 adjacent legs submitted, in order, and the
\* accumulator holds the sum of N-1 over the groups.
C4_AdjacentLegsPerGroup ==
  pc = "RoutesDone" =>
    /\ \A key \in GroupKeys :
         Len(key.stations) >= 2 => SubmittedFor(key) = AdjacentPairs(key.stations)
    /\ Len(DrainedRows) =
         Cardinality({<<key, i>> \in GroupKeys \X (1..5) : i < Len(key.stations)})

\* C5 (as claimed): get_route is never called for a leg with a null
\* endpoint, and no accumulated row has one.
C5_NullLegsSkipped ==
  /\ \A k \in 1..Len(calls) : ~HasNull(calls[k].leg)
  /\ \A k \in 1..Len(DrainedRows) : ~HasNull(RowLeg(DrainedRows[k]))

\* the (id, relacja) partitions of the raw records and their distinct
\* stations in first-seen order
Partitions == {<<raw[i].id, raw[i].relacja>> : i \in 1..Len(raw)}

SequenceOf(part) ==
  LET mine == SelectSeq(raw, LAMBDA r : r.id = part[1] /\ r.relacja = part[2])
  IN unique_list_preserve_order([i \in 1..Len(mine) |-> mine[i].stacja])

TimesSubmitted(relacja, pair) ==
  Cardinality({k \in 1..Len(legs_submitted) :
                 /\ legs_submitted[k].key.relacja = relacja
                 /\ legs_submitted[k].previous_station = pair[1]
                 /\ legs_submitted[k].current_station = pair[2]})

\* C6 (as claimed): when two journeys of one relation visit the same
\* stations in the same order, each adjacent leg of that sequence is
\* submitted exactly once.
C6_SharedSequenceOnce ==
  pc = "RoutesDone" =>
    \A p, q \in Partitions :
      (p # q /\ p[2] = q[2] /\ SequenceOf(p) = SequenceOf(q)) =>
        \A i \in 1..(Len(SequenceOf(p)) - 1) :
          TimesSubmitted(p[2], AdjacentPairs(SequenceOf(p))[i]) = 1

WasHanded(data_type, table) ==
  \E i \in 1..Len(saved) :
    saved[i] = [data_type |-> data_type, table |-> table]

\* C8 (as claimed, for a composer that saves): a table a phase has built
\* has been handed to the Output Writer under the phase's name.
C8_TablesHandedOver ==
  autosave =>
    /\ stations_df # None => WasHanded("stations", stations_df)
    /\ weather_df # None => WasHanded("weather", weather_df)
    /\ pc = "RoutesDone" => WasHanded("routes", routes_df)

DistinctStations ==
  unique_list_preserve_order([i \in 1..Len(raw) |-> raw[i].stacja])

\* C9 (as claimed): the stations table has exactly one row for every
\* distinct station name of the raw records, and each was geocoded.
C9_OneRowPerStation ==
  stations_df # None =>
    /\ \A name \in Range(DistinctStations) :
         /\ Cardinality({i \in 1..Len(stations_df.rows) :
                           stations_df.rows[i].stacja = name}) = 1
         /\ with_pattern(name) \in Range(geocoded)
    /\ Len(stations_df.rows) = Len(DistinctStations)

DistinctPairs ==
  LET columns == [i \in 1..Len(raw) |->
                    [stacja |-> raw[i].stacja, data |-> raw[i].data]]
  IN drop_duplicates(columns, columns)

WeatherPhaseRan == \E k \in 1..Len(phase_log) : phase_log[k].phase = "weather"

\* C10 (as claimed): once the weather phase has run, it did not raise;
\* every distinct (station, date) pair was fetched; every fetch gave a
\* table, never None; the weather table is the rows of those tables.
C10_WeatherSurvivesFailures ==
  WeatherPhaseRan =>
    /\ pc # "Failed"
    /\ Len(weather_fetched) = Len(DistinctPairs)
    /\ \A i \in 1..Len(weather_fetched) :
         /\ weather_fetched[i].stacja = DistinctPairs[i].stacja
         /\ weather_fetched[i].data = to_datetime(DistinctPairs[i].data)
         /\ ~weather_fetched[i].fetched.raised
         /\ ~IsNone(weather_fetched[i].fetched.value)
    /\ weather_df # None
    /\ weather_df.rows =
         Flatten([i \in 1..Len(weather_fetched) |->
                    weather_fetched[i].fetched.value.rows])

----------------------------------------------------------------------------
(* Properties of the journey groups, checked under Spec *)

\* the group of groupby([relacja, full_route_station_count]) the records of
\* the journey (id, relacja) fall in
journey_group(main_data, id, relacja) ==
  LET i == CHOOSE i \in 1..Len(main_data) :
             main_data[i].id = id /\ main_data[i].relacja = relacja
  IN <<relacja, full_route_station_count(main_data, i)>>

\* the key column of the rows of a journey's group: relacja + '_' + the
\* group's aggregated station list
journey_key(main_data, id, relacja) ==
  LET g == journey_group(main_data, id, relacja)
      kept == drop_duplicates(main_data,
                [i \in 1..Len(main_data) |->
                   <<main_data[i].id, main_data[i].relacja, main_data[i].stacja>>])
      members == SelectSeq(kept,
                   LAMBDA r : journey_group(main_data, r.id, r.relacja) = g)
  IN Key(relacja,
         unique_list_preserve_order([k \in 1..Len(members) |-> members[k].stacja]))

RoutesInputPrepared ==
  \E k \in 1..Len(phase_log) :
    phase_log[k].phase = "routes" /\ routes_data_input_df # None

\* C11 (as claimed): once the routes input is prepared, two journeys of one
\* relation with the same number of distinct stations are in one journey
\* group: their records carry the same group and the same key, whatever
\* the number of raw records each has.
C11_GroupedByDistinctCount ==
  RoutesInputPrepared =>
    \A p, q \in Partitions :
      (p[2] = q[2] /\ Len(SequenceOf(p)) = Len(SequenceOf(q))) =>
        /\ journey_group(raw, p[1], p[2]) = journey_group(raw, q[1], q[2])
        /\ journey_key(raw, p[1], p[2]) = journey_key(raw, q[1], q[2])

----------------------------------------------------------------------------
(* Frame properties of the resolver, checked under SpecResolver *)

\* C12: the accumulator is append-only.  In every step each column keeps
\* what it held, as a prefix of what it holds next; a step that returns a
\* table (get_routes_data) leaves the accumulator as it was and returns its
\* rows; and the table drained earlier is a prefix of the table the
\* accumulator gives after the step.
C12_AppendOnly ==
  [][ /\ \A key \in KeySet : IsPrefix(data_dict[key], data_dict'[key])
      /\ routes_df' # routes_df =>
           /\ data_dict' = data_dict
           /\ routes_df' = get_routes_data(data_dict).value
      /\ routes_df # NotDrained =>
           IsPrefix(routes_df.rows, get_routes_data(data_dict').value.rows)
    ]_vars

\* a table of one row was drained, and a further call has appended a
\* second, different result since
C12_Witness ==
  /\ routes_df # NotDrained
  /\ Len(routes_df.rows) = 1
  /\ Len(DrainedRows) = 2
  /\ DrainedRows[2] # DrainedRows[1]
  /\ DrainedRows[1] = routes_df.rows[1]

\* C13: a get_route call that raises leaves the accumulator exactly as it
\* was before the call, and in every reachable state the eight columns of
\* the accumulator have one length, so get_routes_data builds a table.
C13_RaiseLeavesAccumulator ==
  /\ [](/\ \A k1, k2 \in KeySet : Len(data_dict[k1]) = Len(data_dict[k2])
        /\ DOMAIN data_dict = KeySet
        /\ ~get_routes_data(data_dict).raised)
  /\ [][ (calls' # calls /\ calls'[Len(calls')].raised) =>
           data_dict' = data_dict ]_vars

\* a call has returned and appended its row; the next call raised while
\* reading the duration of the route it was given
C13_Witness ==
  /\ Len(calls) = 2
  /\ ~calls[1].raised
  /\ calls[2].raised
  /\ calls[2].outcome = "route_without_duration"
  /\ \A key \in KeySet : Len(data_dict[key]) = 1

====
